---------------------------- MODULE Spec2Model ----------------------------
(***************************************************************************)
(* Model of concatenate_python_files.py: the local-module dependency       *)
(* resolver (is_local_module, resolve_import_path, ImportVisitor), the      *)
(* worklist traversal (find_all_dependencies), the ordering done by main   *)
(* and the emitter (create_concatenated_file).                              *)
(*                                                                         *)
(* A path is the sequence of its components below the filesystem root:     *)
(* <<"r", "pkg", "m.py">> is /r/pkg/m.py and <<>> is /.                      *)
(***************************************************************************)
EXTENDS Integers, Sequences, FiniteSets, TLC

VARIABLES
    folder,                 \* args.folder
    python_scripts,         \* args.python_scripts, as spelled on the command line
    imports,                \* file tree: the import statements of each regular file
    status,                 \* file tree: how reading/parsing each regular file ends
    pc,                     \* position of the run
    exit_code,              \* process exit status, -1 while running
    initial_script_paths,   \* main's set of canonical entry files
    to_process,             \* the deque of find_all_dependencies
    all_found_dependencies, \* the set of find_all_dependencies
    warnings,               \* files a walker warning was printed for, in order
    pushed,                 \* history: every path put on the deque, in order
    popped,                 \* history: every path taken off the deque, in order
    sorted_deps,            \* main's final ordered list
    artifact                \* the output file: whether created, and its sections

vars == <<folder, python_scripts, imports, status, pc, exit_code,
          initial_script_paths, to_process, all_found_dependencies, warnings,
          pushed, popped, sorted_deps, artifact>>

-----------------------------------------------------------------------------
(* Bounds of the inputs.                                                   *)

\* at most this many entry files on the command line
MaxArgs == 2
\* at most this many edits (an import statement, a damaged file) in the tree
MaxEdits == 2
\* the worklist loop is followed for at most this many iterations
MaxSteps == 8

-----------------------------------------------------------------------------
(* The file tree.  /r is the project; /o lies outside it; /r/lnk is a      *)
(* symbolic link to /o.                                                    *)

FileR == <<"r", "run.py">>
FileP == <<"r", "pkg.py">>
FileI == <<"r", "pkg", "__init__.py">>
FileM == <<"r", "pkg", "m.py">>
FileS == <<"r", "pkg", "sub", "__init__.py">>
FileX == <<"o", "x.py">>

RegularFiles == {FileR, FileP, FileI, FileM, FileS, FileX}

Directories == {<<>>, <<"r">>, <<"r", "pkg">>, <<"r", "pkg", "sub">>, <<"o">>}

SymlinkTarget(p) == IF p = <<"r", "lnk">> THEN <<"o">> ELSE p

\* os.path.dirname of an absolute path; dirname("/") is "/"
Dirname(p) == IF p = <<>> THEN <<>> ELSE SubSeq(p, 1, Len(p) - 1)

\* os.path.realpath: ".", ".." and symbolic links resolved left to right
RECURSIVE RealpathFrom(_, _)
RealpathFrom(acc, rest) ==
    IF rest = <<>> THEN acc
    ELSE LET c == Head(rest) IN
         IF c = "." THEN RealpathFrom(acc, Tail(rest))
         ELSE IF c = ".." THEN RealpathFrom(Dirname(acc), Tail(rest))
         ELSE RealpathFrom(SymlinkTarget(Append(acc, c)), Tail(rest))

Realpath(p) == RealpathFrom(<<>>, p)

\* os.path.isfile / os.path.isdir follow symbolic links
IsFile(p) == Realpath(p) \in RegularFiles
IsDir(p) == Realpath(p) \in Directories

\* os.path.commonpath of two absolute paths: the longest common prefix of
\* whole components
RECURSIVE CommonPath(_, _)
CommonPath(p, q) ==
    IF p = <<>> \/ q = <<>> \/ Head(p) # Head(q) THEN <<>>
    ELSE <<Head(p)>> \o CommonPath(Tail(p), Tail(q))

\* mutant: the containment test on the path as spelled, links not resolved
is_local_module_unresolved(module_path, search_folder) ==
    CommonPath(search_folder, module_path) = search_folder

is_local_module(module_path, search_folder) ==
    LET abs_search_folder == Realpath(search_folder)
        abs_module_path == Realpath(module_path)
    IN  CommonPath(abs_search_folder, abs_module_path) = abs_search_folder

-----------------------------------------------------------------------------
(* resolve_import_path.  A dotted module name is the sequence of its       *)
(* segments; the result is the set holding the resolved path, or {} for    *)
(* None.                                                                   *)

RECURSIVE DirnameTimes(_, _)
DirnameTimes(p, n) == IF n = 0 THEN p ELSE DirnameTimes(Dirname(p), n - 1)

\* module_name.split('.'): the segments; the empty name splits into one
\* empty segment
Split(module_name) == IF module_name = <<>> THEN <<"">> ELSE module_name

\* os.path.join adds no component for an empty part
NonEmptyParts(parts) == SelectSeq(parts, LAMBDA c : c # "")

\* os.path.join(base_path, *rel_path_parts) + '.py'
PotentialPathPy(base_path, parts) ==
    base_path \o NonEmptyParts(SubSeq(parts, 1, Len(parts) - 1))
              \o <<parts[Len(parts)] \o ".py">>

\* os.path.join(base_path, *rel_path_parts, '__init__.py')
PotentialPathPkg(base_path, parts) ==
    base_path \o NonEmptyParts(parts) \o <<"__init__.py">>

BasePath(current_file_dir, search_folder, level) ==
    IF level > 0 THEN DirnameTimes(current_file_dir, level - 1)
    ELSE search_folder

\* mutant: the package candidate is tried before the file candidate
resolve_import_path_pkg_first(module_name, current_file_dir, search_folder, level) ==
    LET base_path == BasePath(current_file_dir, search_folder, level)
        rel_path_parts == Split(module_name)
        potential_path_py == PotentialPathPy(base_path, rel_path_parts)
        potential_path_pkg == PotentialPathPkg(base_path, rel_path_parts)
    IN  IF IsFile(potential_path_pkg)
           /\ is_local_module(potential_path_pkg, search_folder)
        THEN {Realpath(potential_path_pkg)}
        ELSE IF IsFile(potential_path_py)
                /\ is_local_module(potential_path_py, search_folder)
        THEN {Realpath(potential_path_py)}
        ELSE {}

resolve_import_path(module_name, current_file_dir, search_folder, level) ==
    LET base_path == BasePath(current_file_dir, search_folder, level)
        rel_path_parts == Split(module_name)
        potential_path_py == PotentialPathPy(base_path, rel_path_parts)
        potential_path_pkg == PotentialPathPkg(base_path, rel_path_parts)
    IN  IF IsFile(potential_path_py)
           /\ is_local_module(potential_path_py, search_folder)
        THEN {Realpath(potential_path_py)}
        ELSE IF IsFile(potential_path_pkg)
                /\ is_local_module(potential_path_pkg, search_folder)
        THEN {Realpath(potential_path_pkg)}
        ELSE {}

-----------------------------------------------------------------------------
(* Import statements and ImportVisitor.  A statement carries the dotted    *)
(* names it lists (each a sequence of segments), and for a from-import the *)
(* base module (<<>> when absent, as in "from . import x") and the level.  *)

ImportStmt(names) ==
    [kind |-> "import", module |-> <<>>, names |-> names, level |-> 0]

FromStmt(module, names, level) ==
    [kind |-> "from", module |-> module, names |-> names, level |-> level]

visit_Import(node, current_file_dir, search_folder) ==
    UNION {resolve_import_path(node.names[i], current_file_dir, search_folder, 0)
             : i \in DOMAIN node.names}

\* f"{module_base_name}.{alias.name}" if module_base_name else alias.name
FullModuleName(module_base_name, alias) == module_base_name \o alias

\* the per-name resolutions of visit_ImportFrom
VisitNames(node, current_file_dir, search_folder) ==
    UNION {resolve_import_path(FullModuleName(node.module, node.names[i]),
                               current_file_dir, search_folder, node.level)
             : i \in DOMAIN node.names}

\* mutant: the base module of a from-import is not resolved
visit_ImportFrom_names_only(node, current_file_dir, search_folder) ==
    VisitNames(node, current_file_dir, search_folder)

visit_ImportFrom(node, current_file_dir, search_folder) ==
    VisitNames(node, current_file_dir, search_folder)
    \cup (IF node.module # <<>>
          THEN resolve_import_path(node.module, current_file_dir,
                                   search_folder, node.level)
          ELSE {})

\* ImportVisitor(current_file, search_folder).visit(tree).dependencies
VisitorDependencies(current_file, search_folder) ==
    LET current_file_dir == Dirname(current_file)
    IN  UNION {IF node.kind = "import"
               THEN visit_Import(node, current_file_dir, search_folder)
               ELSE visit_ImportFrom(node, current_file_dir, search_folder)
                 : node \in imports[current_file]}

-----------------------------------------------------------------------------
(* Reading a file: open(..., encoding='utf-8').read() and ast.parse.       *)
(*   "ok"      read, decoded and parsed                                    *)
(*   "syntax"  read and decoded, ast.parse raises SyntaxError             *)
(*   "decode"  read() raises UnicodeDecodeError                           *)
(*   "ioerr"   open() raises IOError (also for a path that is no file)    *)

ReadOutcome(f) == IF f \in RegularFiles THEN status[f] ELSE "ioerr"

-----------------------------------------------------------------------------
(* The order of Python strings, for sorted(): a path string is "/" and the *)
(* component for each component, compared by code point.                  *)

CharCodes(c) ==
    CASE c = "r"           -> <<114>>
      [] c = "o"           -> <<111>>
      [] c = "pkg"         -> <<112, 107, 103>>
      [] c = "sub"         -> <<115, 117, 98>>
      [] c = "run.py"      -> <<114, 117, 110, 46, 112, 121>>
      [] c = "pkg.py"      -> <<112, 107, 103, 46, 112, 121>>
      [] c = "m.py"        -> <<109, 46, 112, 121>>
      [] c = "x.py"        -> <<120, 46, 112, 121>>
      [] c = "__init__.py" -> <<95, 95, 105, 110, 105, 116, 95, 95, 46, 112, 121>>
      [] c = "missing.py"  -> <<109, 105, 115, 115, 105, 110, 103, 46, 112, 121>>

RECURSIVE PathString(_)
PathString(p) ==
    IF p = <<>> THEN <<>>
    ELSE <<47>> \o CharCodes(Head(p)) \o PathString(Tail(p))

RECURSIVE SeqLess(_, _)
SeqLess(s, t) ==
    IF t = <<>> THEN FALSE
    ELSE IF s = <<>> THEN TRUE
    ELSE IF Head(s) # Head(t) THEN Head(s) < Head(t)
    ELSE SeqLess(Tail(s), Tail(t))

StrLess(p, q) == SeqLess(PathString(p), PathString(q))

\* mutant: the key is the path alone
KeyLess_path_only(x, y, initial) == StrLess(x, y)

\* key=lambda x: (x not in initial_script_paths, x); False sorts before True
KeyLess(x, y, initial) ==
    IF (x \notin initial) # (y \notin initial) THEN x \in initial
    ELSE StrLess(x, y)

\* sorted(list(S), key=...): the keys of distinct paths differ
RECURSIVE Sorted(_, _)
Sorted(S, initial) ==
    IF S = {} THEN <<>>
    ELSE LET least == CHOOSE x \in S :
                        \A y \in S \ {x} : KeyLess(x, y, initial)
         IN  <<least>> \o Sorted(S \ {least}, initial)

-----------------------------------------------------------------------------
(* os.path.relpath(path, start): both made absolute and normalised as      *)
(* spelled (no links resolved), then the way from start to path.           *)

RECURSIVE NormpathFrom(_, _)
NormpathFrom(acc, rest) ==
    IF rest = <<>> THEN acc
    ELSE LET c == Head(rest) IN
         IF c = "." THEN NormpathFrom(acc, Tail(rest))
         ELSE IF c = ".." THEN NormpathFrom(Dirname(acc), Tail(rest))
         ELSE NormpathFrom(Append(acc, c), Tail(rest))

Relpath(path, start) ==
    LET p == NormpathFrom(<<>>, path)
        s == NormpathFrom(<<>>, start)
        i == Len(CommonPath(p, s))
        rel == [k \in 1 .. (Len(s) - i) |-> ".."] \o SubSeq(p, i + 1, Len(p))
    IN  IF rel = <<>> THEN <<".">> ELSE rel

-----------------------------------------------------------------------------
(* The inputs of a run: the command line and the content of the tree.      *)

FolderArgs == {<<"r">>, <<"r", ".">>, <<"nodir">>, <<"r", "run.py">>}

ScriptArgs ==
    {<<"r", "run.py">>, <<"r", "pkg", "..", "run.py">>, <<"r", "lnk", "x.py">>,
     <<"r", "missing.py">>}

ScriptSeqs == UNION {[1 .. n -> ScriptArgs] : n \in 1 .. MaxArgs}

\* <<file, statement>>: the statement stands in the file
StmtEdits ==
    {<<FileR, ImportStmt(<< <<"pkg">> >>)>>,                       \* import pkg
     <<FileR, FromStmt(<<"pkg">>, << <<"m">> >>, 0)>>,             \* from pkg import m
     <<FileM, FromStmt(<<>>, << <<"m">> >>, 1)>>,                  \* from . import m
     <<FileM, FromStmt(<<>>, << <<"run">> >>, 2)>>,                  \* from .. import run
     <<FileM, FromStmt(<<"o">>, << <<"x">> >>, 3)>>,               \* from ...o import x
     <<FileR, ImportStmt(<< <<"lnk", "x">>, <<"os">> >>)>>,        \* import lnk.x, os
     <<FileX, ImportStmt(<< <<"pkg", "sub">> >>)>>,                \* import pkg.sub
     <<FileP, FromStmt(<<"pkg">>, << <<"sub">>, <<"m">> >>, 1)>>}  \* from .pkg import sub, m

\* <<file, outcome>>: reading or parsing the file ends that way
DamageEdits ==
    ({FileR} \X {"syntax", "decode", "ioerr"}) \cup {<<FileP, "syntax">>}

EditSets ==
    {e \in (SUBSET StmtEdits) \X (SUBSET DamageEdits) :
        /\ Cardinality(e[1]) + Cardinality(e[2]) <= MaxEdits
        /\ \A d1, d2 \in e[2] : d1[1] = d2[1] => d1 = d2}

\* a command line whose folder is not spelled /r is followed with one entry
\* file and at most one edit
InputShape(f, scripts, e) ==
    f # <<"r">> => Len(scripts) = 1 /\ Cardinality(e[1]) + Cardinality(e[2]) <= 1

Perms(S) ==
    {q \in [1 .. Cardinality(S) -> S] : \A i, j \in DOMAIN q : q[i] = q[j] => i = j}

Range(q) == {q[i] : i \in DOMAIN q}

Count(q, x) == Cardinality({i \in DOMAIN q : q[i] = x})

InitWith(f, scripts, e) ==
    /\ folder = f
    /\ python_scripts = scripts
    /\ imports = [file \in RegularFiles |->
                    {ed[2] : ed \in {x \in e[1] : x[1] = file}}]
    /\ status = [file \in RegularFiles |->
                    IF \E d \in e[2] : d[1] = file
                    THEN (CHOOSE d \in e[2] : d[1] = file)[2]
                    ELSE "ok"]
    /\ pc = "main"
    /\ exit_code = -1
    /\ initial_script_paths = {}
    /\ to_process = <<>>
    /\ all_found_dependencies = {}
    /\ warnings = <<>>
    /\ pushed = <<>>
    /\ popped = <<>>
    /\ sorted_deps = <<>>
    /\ artifact = [created |-> FALSE, sections |-> <<>>]

Init ==
    \E f \in FolderArgs, scripts \in ScriptSeqs, e \in EditSets :
        InputShape(f, scripts, e) /\ InitWith(f, scripts, e)

\* the runs on /r with a single entry file, over every tree
InitOneEntry ==
    \E scripts \in [1 .. 1 -> ScriptArgs], e \in EditSets :
        InitWith(<<"r">>, scripts, e)

tree == <<folder, python_scripts, imports, status>>

-----------------------------------------------------------------------------
(* main, up to the call of find_all_dependencies.                          *)

\* mutant: the entry files are not checked
ScriptsExist_unchecked(scripts) == TRUE

\* for script in python_scripts: os.path.isfile(script)
ScriptsExist(scripts) == \A i \in DOMAIN scripts : IsFile(scripts[i])

\* {os.path.realpath(p) for p in ...}
CanonicalSet(scripts) == {Realpath(scripts[i]) : i \in DOMAIN scripts}

ParseArgsAndValidate ==
    /\ pc = "main"
    /\ initial_script_paths' = CanonicalSet(python_scripts)
    /\ IF ~IsDir(folder) \/ ~ScriptsExist(python_scripts)
       THEN pc' = "exit" /\ exit_code' = 2      \* parser.error
       ELSE pc' = "find" /\ exit_code' = exit_code
    /\ UNCHANGED <<tree, to_process, all_found_dependencies, warnings, pushed,
                   popped, sorted_deps, artifact>>

-----------------------------------------------------------------------------
(* find_all_dependencies.                                                  *)

\* mutant: the deque is seeded from the argument list, repeats kept
SeedOrders_list(start_scripts) ==
    {[i \in DOMAIN start_scripts |-> Realpath(start_scripts[i])]}

\* deque(initial_paths): the elements of the set, in the set's iteration order
SeedOrders(start_scripts) == Perms(CanonicalSet(start_scripts))

Seed ==
    /\ pc = "find"
    /\ \E order \in SeedOrders(python_scripts) :
          /\ to_process' = order
          /\ pushed' = order
    /\ all_found_dependencies' = CanonicalSet(python_scripts)
    /\ pc' = "walk"
    /\ UNCHANGED <<tree, exit_code, initial_script_paths, warnings, popped,
                   sorted_deps, artifact>>

\* mutant: no membership test before a dependency is added and enqueued
NewDependencies_all(dependencies, found) == dependencies

\* new_dependencies = visitor.dependencies - all_found_dependencies
NewDependencies(dependencies, found) == dependencies \ found

\* mutant: only the first new dependency is added
AppendOrders_first(new_dependencies) ==
    {<<d>> : d \in new_dependencies} \cup
    (IF new_dependencies = {} THEN {<<>>} ELSE {})

\* for dep in new_dependencies: the elements in the set's iteration order
AppendOrders(new_dependencies) == Perms(new_dependencies)

\* mutant: a new dependency is added to the set and never enqueued
EnqueueFiles_none(order) == <<>>

\* if os.path.isfile(dep): to_process.append(dep)
EnqueueFiles(order) == SelectSeq(order, IsFile)

\* mutant: a file that cannot be read or parsed ends the loop
AfterFailure_break(queue) == <<>>

\* continue: the loop goes on with the rest of the deque
AfterFailure(queue) == Tail(queue)

WalkStep ==
    /\ pc = "walk"
    /\ to_process # <<>>
    /\ Len(popped) < MaxSteps
    /\ LET current_file == Head(to_process) IN
       /\ popped' = Append(popped, current_file)
       /\ IF ReadOutcome(current_file) # "ok"
          THEN /\ warnings' = Append(warnings, current_file)
               /\ to_process' = AfterFailure(to_process)
               /\ UNCHANGED <<all_found_dependencies, pushed>>
          ELSE LET new_dependencies ==
                     NewDependencies(VisitorDependencies(current_file, folder),
                                     all_found_dependencies)
               IN  \E order \in AppendOrders(new_dependencies) :
                      LET files == EnqueueFiles(order) IN
                      /\ all_found_dependencies' =
                             all_found_dependencies \cup Range(order)
                      /\ to_process' = Tail(to_process) \o files
                      /\ pushed' = pushed \o files
                      /\ UNCHANGED warnings
    /\ UNCHANGED <<tree, pc, exit_code, initial_script_paths, sorted_deps,
                   artifact>>

\* find_all_dependencies returns and main sorts the set
ReturnAndSort ==
    /\ pc = "walk"
    /\ to_process = <<>>
    /\ sorted_deps' = Sorted(all_found_dependencies, initial_script_paths)
    /\ pc' = "emit_open"
    /\ UNCHANGED <<tree, exit_code, initial_script_paths, to_process,
                   all_found_dependencies, warnings, pushed, popped, artifact>>

-----------------------------------------------------------------------------
(* create_concatenated_file.                                               *)

\* opening the output file for writing creates or truncates it; whether it
\* can be opened is the environment's choice
EmitOpen ==
    /\ pc = "emit_open"
    /\ \E writable \in BOOLEAN :
          IF writable
          THEN /\ artifact' = [created |-> TRUE, sections |-> <<>>]
               /\ pc' = "emit"
               /\ exit_code' = exit_code
          ELSE /\ artifact' = artifact
               /\ pc' = "exit"
               /\ exit_code' = 1                \* sys.exit(1)
    /\ UNCHANGED <<tree, initial_script_paths, to_process,
                   all_found_dependencies, warnings, pushed, popped,
                   sorted_deps>>

\* what follows the header of a file's section:
\*   "content"  the file's text and a blank line
\*   "error"    the inline error marker (except IOError)
\*   "cut"      nothing: UnicodeDecodeError is no IOError and leaves both try
\*              blocks
SectionBody(outcome) ==
    CASE outcome = "ioerr"  -> "error"
      [] outcome = "decode" -> "cut"
      [] OTHER              -> "content"

EmitFile ==
    /\ pc = "emit"
    /\ Len(artifact.sections) < Len(sorted_deps)
    /\ LET file_path == sorted_deps[Len(artifact.sections) + 1]
           relative_path == Relpath(file_path, folder)
           body == SectionBody(ReadOutcome(file_path))
       IN  /\ artifact' = [artifact EXCEPT !.sections =
                              Append(@, [file |-> file_path,
                                         label |-> relative_path,
                                         body |-> body])]
           /\ IF body = "cut"
              THEN pc' = "crash" /\ exit_code' = 1   \* uncaught exception
              ELSE pc' = pc /\ exit_code' = exit_code
    /\ UNCHANGED <<tree, initial_script_paths, to_process,
                   all_found_dependencies, warnings, pushed, popped,
                   sorted_deps>>

\* every file written: the success message, and main returns
EmitDone ==
    /\ pc = "emit"
    /\ Len(artifact.sections) = Len(sorted_deps)
    /\ pc' = "done"
    /\ exit_code' = 0
    /\ UNCHANGED <<tree, initial_script_paths, to_process,
                   all_found_dependencies, warnings, pushed, popped,
                   sorted_deps, artifact>>

-----------------------------------------------------------------------------

Next ==
    \/ ParseArgsAndValidate
    \/ Seed
    \/ WalkStep
    \/ ReturnAndSort
    \/ EmitOpen
    \/ EmitFile
    \/ EmitDone

Spec == Init /\ [][Next]_vars

\* the run is one sequential process: a step that can be taken is taken
FairSpec == InitOneEntry /\ [][Next]_vars /\ WF_vars(Next)

-----------------------------------------------------------------------------
(* Notions the properties share.                                           *)

\* find_all_dependencies has returned and main has built its ordered list
ListReady ==
    pc \in {"emit_open", "emit", "done", "crash"} \/ (pc = "exit" /\ exit_code = 1)

\* component-wise prefix of the canonical path
UnderRoot(p) ==
    LET root == Realpath(folder)
    IN  Len(root) <= Len(p) /\ SubSeq(p, 1, Len(root)) = root

Entries == {Realpath(python_scripts[i]) : i \in DOMAIN python_scripts}

\* position of an entry file's first mention on the command line
FirstMention(f) ==
    CHOOSE i \in DOMAIN python_scripts :
        /\ Realpath(python_scripts[i]) = f
        /\ \A j \in 1 .. (i - 1) : Realpath(python_scripts[j]) # f

\* the list holds each file of the set once, the entry files before the
\* others (stated on neighbours: the entry files then form a prefix)
EntriesFirst(list, set, entries) ==
    /\ Range(list) = set
    /\ Len(list) = Cardinality(set)
    /\ \A i \in 1 .. (Len(list) - 1) :
          list[i + 1] \in entries => list[i] \in entries

\* the files of the list that are not entry files ascend by path string
\* (stated on neighbours: the order of strings is transitive)
OthersAscend(list, entries) ==
    \A i \in 1 .. (Len(list) - 1) :
        (list[i] \notin entries /\ list[i + 1] \notin entries)
            => StrLess(list[i], list[i + 1])

\* what the statements of a file resolve to: each listed name, and the base
\* module of a from-import that names one
NameTargets(f, node) ==
    UNION {resolve_import_path(
               IF node.kind = "from" THEN node.module \o node.names[i]
               ELSE node.names[i],
               Dirname(f), folder, node.level) : i \in DOMAIN node.names}

BaseTargets(f, node) ==
    resolve_import_path(node.module, Dirname(f), folder, node.level)

Targets(f) ==
    UNION {NameTargets(f, node)
           \cup (IF node.kind = "from" /\ node.module # <<>>
                 THEN BaseTargets(f, node) ELSE {}) : node \in imports[f]}

Parsed(f) == f \in RegularFiles /\ status[f] = "ok"

\* the files reachable from the entry files through parsed files
RECURSIVE Reach(_)
Reach(S) ==
    LET more == S \cup UNION {Targets(f) : f \in {g \in S : Parsed(g)}}
    IN  IF more = S THEN S ELSE Reach(more)

-----------------------------------------------------------------------------
\* C1 (as stated): the final list is the canonical entry files in the order
\* of the command line, then the other files ascending by path string.
C1_EntriesInArgumentOrder ==
    ListReady =>
        LET entries == Entries IN
        /\ EntriesFirst(sorted_deps, all_found_dependencies, entries)
        /\ OthersAscend(sorted_deps, entries)
        /\ \A i \in 1 .. (Len(sorted_deps) - 1) :
              sorted_deps[i + 1] \in entries
                  => FirstMention(sorted_deps[i]) < FirstMention(sorted_deps[i + 1])

\* C1 (amended): the final list is the distinct canonical entry files
\* ascending by path string, whatever their order on the command line, then
\* the other found files ascending by path string.
C1_EntriesFirstEachGroupSorted ==
    ListReady =>
        LET entries == Entries IN
        /\ EntriesFirst(sorted_deps, all_found_dependencies, entries)
        /\ OthersAscend(sorted_deps, entries)
        /\ \A i \in 1 .. (Len(sorted_deps) - 1) :
              sorted_deps[i + 1] \in entries
                  => StrLess(sorted_deps[i], sorted_deps[i + 1])

\* two entry files given in descending order and a file found by an import
C1_Witness ==
    /\ pc = "done"
    /\ Len(python_scripts) = 2
    /\ StrLess(Realpath(python_scripts[2]), Realpath(python_scripts[1]))
    /\ all_found_dependencies \ Entries # {}

\* C2 (as stated): every path of the dependency set, of the deque and of the
\* final list lies inside projectRoot, the entry files included.
C2_AllUnderRoot ==
    \A p \in all_found_dependencies \cup Range(pushed) \cup Range(popped)
             \cup Range(sorted_deps) : UnderRoot(p)

\* C2 (amended): every path of the dependency set, of the deque and of the
\* final list that is not a canonical entry file lies inside projectRoot; the
\* entry files are seeded and parsed without that test.
C2_ResolvedUnderRoot ==
    \A p \in all_found_dependencies \cup Range(pushed) \cup Range(popped)
             \cup Range(sorted_deps) : p \in Entries \/ UnderRoot(p)

\* a parsed file imports, three levels up and through a link, a file that
\* exists outside the root, and the file is not in the output
C2_Witness ==
    /\ pc = "done"
    /\ \E f \in Range(popped), node \in UNION {imports[g] : g \in RegularFiles} :
          /\ Parsed(f)
          /\ node \in imports[f]
          /\ \E i \in DOMAIN node.names :
                LET parts == Split(IF node.kind = "from"
                                   THEN node.module \o node.names[i]
                                   ELSE node.names[i])
                    cand == PotentialPathPy(
                                BasePath(Dirname(f), folder, node.level), parts)
                IN  /\ IsFile(cand)
                    /\ ~UnderRoot(Realpath(cand))
                    /\ Realpath(cand) \notin all_found_dependencies

\* C3 (as stated): at return, for every file of the output set, whatever
\* its import statements resolve to under projectRoot is in the output set.
C3_ClosedUnderImports ==
    ListReady =>
        \A f \in all_found_dependencies \cap RegularFiles :
            \A node \in imports[f] :
                /\ NameTargets(f, node) \subseteq all_found_dependencies
                /\ (node.kind = "from" /\ node.module # <<>>)
                      => BaseTargets(f, node) \subseteq all_found_dependencies

\* C3 (amended): at return, for every file of the output set that was read
\* and parsed, whatever its import statements resolve to under projectRoot
\* is in the output set; a file that could not be read or parsed adds none.
C3_ClosedUnderParsedImports ==
    ListReady =>
        \A f \in all_found_dependencies \cap RegularFiles :
            Parsed(f) =>
                \A node \in imports[f] :
                    /\ NameTargets(f, node) \subseteq all_found_dependencies
                    /\ (node.kind = "from" /\ node.module # <<>>)
                          => BaseTargets(f, node) \subseteq all_found_dependencies

\* a file found by an import has itself an import that found a third file
C3_Witness ==
    /\ pc = "done"
    /\ \E f \in all_found_dependencies \ Entries :
          /\ Parsed(f)
          /\ Targets(f) \ (Entries \cup {f}) # {}

\* C4: from every state of the worklist loop the loop ends and the function
\* returns, and the list then holds each found file exactly once, also when
\* files import each other or themselves.
C4_TerminatesEachFileOnce ==
    /\ (pc = "walk") ~> (pc = "emit_open")
    /\ [](ListReady =>
            /\ Len(sorted_deps) = Cardinality(all_found_dependencies)
            /\ \A f \in all_found_dependencies : Count(sorted_deps, f) = 1)

\* two files that import each other, both parsed, and the run has ended
C4_Witness ==
    /\ pc = "done"
    /\ \E f, g \in all_found_dependencies :
          /\ f # g
          /\ Parsed(f) /\ Parsed(g)
          /\ g \in Targets(f)
          /\ f \in Targets(g)

\* C5: a path is put on the deque at most once and taken off it at most
\* once, every path on it is canonical, and at return every enqueued file of
\* the set has been taken off exactly once.
C5_EnqueuedAndParsedOnce ==
    /\ \A f \in Range(pushed) \cup Range(popped) :
          /\ Count(pushed, f) <= 1
          /\ Count(popped, f) <= 1
          /\ Realpath(f) = f
    /\ ListReady =>
          \A f \in all_found_dependencies :
              f \in Range(pushed) => Count(popped, f) = 1

\* one file given twice as entry under two spellings and imported by
\* another parsed file
C5_Witness ==
    /\ pc = "done"
    /\ Len(python_scripts) = 2
    /\ python_scripts[1] # python_scripts[2]
    /\ Realpath(python_scripts[1]) = Realpath(python_scripts[2])
    /\ \E g \in Range(popped) \ Entries :
          Parsed(g) /\ Realpath(python_scripts[1]) \in Targets(g)

\* C6: a run with valid arguments whose output file can be opened ends with
\* success and an artifact that has one section per file of the list, in
\* order, with the error marker for each file that cannot be read or decoded.
C6_EmitterCoversEveryFile ==
    pc \in {"done", "crash"} =>
        /\ pc = "done"
        /\ exit_code = 0
        /\ Len(artifact.sections) = Len(sorted_deps)
        /\ \A i \in DOMAIN artifact.sections :
              /\ artifact.sections[i].file = sorted_deps[i]
              /\ artifact.sections[i].body =
                    IF ReadOutcome(sorted_deps[i]) \in {"ioerr", "decode"}
                    THEN "error" ELSE "content"

\* the next step of the loop takes a file that cannot be read or parsed
FailureStepNext ==
    /\ pc = "walk"
    /\ to_process # <<>>
    /\ ReadOutcome(Head(to_process)) # "ok"

\* C7: a step of the loop on a file that cannot be read, decoded or parsed
\* adds one warning, takes the file off the deque and changes nothing else;
\* at return every enqueued path has been processed, each such file is in
\* the set and the list, and was warned about once.
C7_FailedFileSkippedRunGoesOn ==
    /\ [][FailureStepNext =>
            /\ warnings' = Append(warnings, Head(to_process))
            /\ to_process' = Tail(to_process)
            /\ all_found_dependencies' = all_found_dependencies
            /\ pc' = "walk"]_vars
    /\ [](ListReady =>
            /\ Range(pushed) \subseteq Range(popped)
            /\ \A f \in Range(popped) :
                  /\ f \in all_found_dependencies
                  /\ f \in Range(sorted_deps)
                  /\ Count(warnings, f) = (IF Parsed(f) THEN 0 ELSE 1))

\* the first file taken off the deque failed, and a file was then found
\* through another entry file
C7_Witness ==
    /\ pc = "emit_open"
    /\ warnings # <<>>
    /\ popped[1] = warnings[1]
    /\ all_found_dependencies \ Entries # {}

\* C8: with a projectRoot that is no directory or an entry file that is no
\* regular file, the run never leaves main except by exit code 2: nothing is
\* enqueued or parsed and no artifact is created.
C8_InvalidInputExitsFirst ==
    (~IsDir(folder) \/ \E i \in DOMAIN python_scripts : ~IsFile(python_scripts[i]))
        => /\ pc \in {"main", "exit"}
           /\ pc = "exit" => exit_code = 2
           /\ pushed = <<>> /\ popped = <<>> /\ warnings = <<>>
           /\ all_found_dependencies = {}
           /\ artifact = [created |-> FALSE, sections |-> <<>>]

\* a valid root, one entry file that exists and one that does not: exit 2
C8_Witness ==
    /\ pc = "exit"
    /\ exit_code = 2
    /\ IsDir(folder)
    /\ \E i, j \in DOMAIN python_scripts :
          IsFile(python_scripts[i]) /\ ~IsFile(python_scripts[j])

C10_ListDeterminedByInputs ==
    ListReady =>
        LET entries == Entries
            reach == Reach(entries)
        IN  /\ EntriesFirst(sorted_deps, reach, entries)
            /\ \A i \in 1 .. (Len(sorted_deps) - 1) :
                  (sorted_deps[i] \in entries <=> sorted_deps[i + 1] \in entries)
                      => StrLess(sorted_deps[i], sorted_deps[i + 1])

\* two entry files to seed in either order and a file with two new
\* dependencies to enqueue in either order
C10_Witness ==
    /\ pc = "done"
    /\ Cardinality(Entries) = 2
    /\ \E f \in Range(popped) : Cardinality(Targets(f) \ (Entries \cup {f})) >= 2

-----------------------------------------------------------------------------
(* The resolver's contract, stated without resolve_import_path.            *)

\* the dotted names a statement asks the resolver for, each with its level
Requests(node) ==
    {<<(IF node.kind = "from" THEN node.module \o node.names[i]
        ELSE node.names[i]), node.level>> : i \in DOMAIN node.names}
    \cup (IF node.kind = "from" /\ node.module # <<>>
          THEN {<<node.module, node.level>>} ELSE {})

\* projectRoot for level 0, else the file's directory with level - 1
\* trailing components removed (never above /)
ExpectedBase(f, level) ==
    IF level = 0 THEN folder
    ELSE LET dir == SubSeq(f, 1, Len(f) - 1)
             keep == IF Len(dir) > level - 1 THEN Len(dir) - (level - 1) ELSE 0
         IN  SubSeq(dir, 1, keep)

\* base/seg1/.../segN.py and base/seg1/.../segN/__init__.py
FileCandidate(f, req) ==
    LET segs == req[1]
    IN  ExpectedBase(f, req[2]) \o SubSeq(segs, 1, Len(segs) - 1)
            \o <<segs[Len(segs)] \o ".py">>

PackageCandidate(f, req) == ExpectedBase(f, req[2]) \o req[1] \o <<"__init__.py">>

\* a regular file whose canonical path lies under projectRoot
Accepted(candidate) ==
    Realpath(candidate) \in RegularFiles /\ UnderRoot(Realpath(candidate))

ExpectedResolution(f, req) ==
    IF Accepted(FileCandidate(f, req)) THEN {Realpath(FileCandidate(f, req))}
    ELSE IF Accepted(PackageCandidate(f, req))
    THEN {Realpath(PackageCandidate(f, req))}
    ELSE {}

\* C11: for every name a parsed file asks for, the set holds the file
\* candidate when that is a regular file under projectRoot (whether or not
\* the package candidate exists), else the package candidate when that is
\* one, else nothing; the set holds nothing else but entry files, and a
\* resolution that finds nothing warns about nothing and stops nothing.
C11_FileCandidateBeforePackage ==
    LET parsed == {f \in Range(popped) : Parsed(f)}
        expected == UNION {UNION {ExpectedResolution(f, req) :
                                    req \in UNION {Requests(n) : n \in imports[f]}}
                             : f \in parsed}
    IN  /\ all_found_dependencies \subseteq Entries \cup expected
        /\ expected \subseteq all_found_dependencies
        /\ \A f \in Range(warnings) : ~Parsed(f)
        /\ pc = "crash" => \E f \in all_found_dependencies : ReadOutcome(f) = "decode"

\* a parsed import whose file and package candidates both exist resolved to
\* the file, one with only a package candidate resolved to the package, and
\* the shadowed package-init file is not in the set
C11_Witness ==
    /\ pc = "done"
    /\ \E f \in Range(popped), n \in UNION {imports[g] : g \in RegularFiles} :
          /\ Parsed(f) /\ n \in imports[f]
          /\ \E req \in Requests(n) :
                /\ Accepted(FileCandidate(f, req))
                /\ Accepted(PackageCandidate(f, req))
                /\ Realpath(FileCandidate(f, req)) \in all_found_dependencies
                /\ Realpath(PackageCandidate(f, req)) \notin all_found_dependencies
    /\ \E f \in Range(popped), n \in UNION {imports[g] : g \in RegularFiles} :
          /\ Parsed(f) /\ n \in imports[f]
          /\ \E req \in Requests(n) :
                /\ ~Accepted(FileCandidate(f, req))
                /\ Accepted(PackageCandidate(f, req))
                /\ Realpath(PackageCandidate(f, req)) \in all_found_dependencies

=============================================================================
